---- MODULE Spec2Model ----
(***************************************************************************)
(* Model of static/secret_logic.js: the hidden click-sequence gate (first  *)
(* DOMContentLoaded listener) as a state machine over browser events.      *)
(* Every handler is a function from the page state (a record) and the      *)
(* clock reading to the new page state, written in the order of the        *)
(* statements of the handler.  A handler runs within one clock             *)
(* millisecond: every Date.now() of one handler run reads the same value.  *)
(***************************************************************************)
EXTENDS Integers, Sequences, FiniteSets, TLC

VARIABLES
    state,               \* let state
    lastClickTimestamp,  \* let lastClickTimestamp
    clickerTimestamps,   \* let clickerTimestamps
    cpsUpdateInterval,   \* let cpsUpdateInterval (NullHandle = null)
    timerInterval,       \* let timerInterval     (NullHandle = null)
    timerElement,        \* let timerElement: <<>> = null, <<text>> = mounted readout
    readouts,            \* number of readout elements attached to document.body
    intervals,           \* browser: active setInterval handles -> callback closure
    timeouts,            \* browser: pending setTimeout handles -> due time
    nextHandle,          \* browser: next timer handle to hand out
    mounted,             \* trigger zones attached to document.body
    z3Text,              \* zones.zone3.textContent
    z3Style,             \* zones.zone3 skin
    navigation,          \* navigation started by the page and not yet committed
    fetchState,          \* the fetch('/_s_a_p_') promise chain
    fetches,             \* number of fetch('/_s_a_p_') calls issued
    alive,               \* the document has not been unloaded yet
    now,                 \* Date.now()
    accepted,            \* history: time of the first click, then the timeDiff of every accepted timed click
    resetStreak,         \* history: resetSequence calls since the last handler run that made none
    live                 \* second DOMContentLoaded listener: the live-content refresher

progvars == <<state, lastClickTimestamp, clickerTimestamps, cpsUpdateInterval,
              timerInterval, timerElement, readouts, intervals, timeouts, nextHandle,
              mounted, z3Text, z3Style, navigation, fetchState, fetches>>

vars == <<state, lastClickTimestamp, clickerTimestamps, cpsUpdateInterval,
          timerInterval, timerElement, readouts, intervals, timeouts, nextHandle,
          mounted, z3Text, z3Style, navigation, fetchState, fetches,
          alive, now, accepted, resetStreak, live>>

(***************************************************************************)
(* Program constants.                                                      *)
(***************************************************************************)
Win12Min == 2000
Win12Max == 3500
Win23Min == 3000
Win23Max == 4500
Win34Min == 2000
Win34Max == 3000
Timer1Ms == 3500
Timer2Ms == 4500
Timer3Ms == 3000
Timer5Ms == 3000
TickMs == 100
BurstMs == 3000
CpsMs == 100
CpsWindowMs == 1000
ClickGoal == 180

(***************************************************************************)
(* Bounds of the exploration.                                              *)
(***************************************************************************)
MaxNow == 11500
MaxTally == 186
MaxLate == 1
MaxStreak == 2

\* How far the clock may move between two events while the page is in state st:
\* the ends of the window that state waits for, one millisecond outside each
\* end and a value inside (in state 1 also 1501 ms, from one millisecond
\* early to the window maximum); the length of the burst in state 5.
Delays(st) ==
    CASE st = 1 -> {1501, 1999, 2000, 2500, 3500, 3501}
      [] st = 2 -> {2999, 3000, 3500, 4500, 4501}
      [] st = 3 -> {1999, 2000, 2500, 3000, 3001}
      [] st = 5 -> {3000}
      [] OTHER  -> {1500}

NullHandle == 0
NoText == -1

Min2(a, b) == IF a < b THEN a ELSE b

(***************************************************************************)
(* Browser timer table.                                                    *)
(***************************************************************************)
EmptyTable == [h \in {} |-> 0]

Put(m, h, v) == [k \in (DOMAIN m) \cup {h} |-> IF k = h THEN v ELSE m[k]]

clearInterval(m, h) == [k \in (DOMAIN m) \ {h} |-> m[k]]

\* (ms / 1000).toFixed(1), in tenths of a second
toFixed1(ms) == (ms + 50) \div 100

(***************************************************************************)
(* The page state as one record.  resetInvoked is not page state: it lets  *)
(* an action see whether the handler it ran called resetSequence.          *)
(***************************************************************************)
Cur ==
    [state |-> state, lastClickTimestamp |-> lastClickTimestamp,
     clickerTimestamps |-> clickerTimestamps,
     cpsUpdateInterval |-> cpsUpdateInterval, timerInterval |-> timerInterval,
     timerElement |-> timerElement, readouts |-> readouts, intervals |-> intervals,
     timeouts |-> timeouts, nextHandle |-> nextHandle, mounted |-> mounted,
     z3Text |-> z3Text, z3Style |-> z3Style, navigation |-> navigation,
     fetchState |-> fetchState, fetches |-> fetches, resetInvoked |-> FALSE]

\* variant of stopTimer that leaves the interval running
stopTimerKeepInterval(s) ==
    IF s.timerElement # <<>>
    THEN [s EXCEPT !.timerElement = <<>>, !.readouts = @ - 1]
    ELSE s

stopTimer(s) ==
    LET s1 == [s EXCEPT !.intervals = clearInterval(@, s.timerInterval)]
    IN  IF s1.timerElement # <<>>
        THEN [s1 EXCEPT !.timerElement = <<>>, !.readouts = @ - 1]
        ELSE s1

startTimer(s, t, durationMs) ==
    LET s1 == stopTimer(s)
        h  == s1.nextHandle
    IN  [s1 EXCEPT !.timerElement = <<NoText>>,
                   !.readouts = @ + 1,
                   !.timerInterval = h,
                   !.intervals = Put(@, h, [kind |-> "overlay", due |-> t + TickMs,
                                            startTime |-> t, duration |-> durationMs]),
                   !.nextHandle = h + 1]

\* the callback of the setInterval of startTimer, closure c
timerTick(s, t, h) ==
    LET c  == s.intervals[h]
        elapsedTime == t - c.startTime
        s1 == [s EXCEPT !.intervals[h].due = t + TickMs]
    IN  IF elapsedTime >= c.duration
        THEN stopTimer(s1)
        ELSE IF s1.timerElement = <<>>
        THEN s1     \* timerElement.textContent on null throws: nothing is written
        ELSE [s1 EXCEPT !.timerElement = <<toFixed1(elapsedTime)>>]

\* variants of resetSequence with one slip each
resetSequenceToIdle(s) ==
    LET s1 == [s EXCEPT !.intervals = clearInterval(@, s.cpsUpdateInterval)]
        s2 == stopTimer(s1)
    IN  [s2 EXCEPT !.state = 0, !.navigation = "reload", !.resetInvoked = TRUE]

resetSequenceNoCps(s) ==
    LET s2 == stopTimer(s)
    IN  [s2 EXCEPT !.navigation = "reload", !.resetInvoked = TRUE]

resetSequenceStepBack(s) ==
    LET s1 == [s EXCEPT !.intervals = clearInterval(@, s.cpsUpdateInterval)]
        s2 == stopTimer(s1)
    IN  [s2 EXCEPT !.state = IF @ > 0 THEN @ - 1 ELSE 0,
                   !.navigation = "reload", !.resetInvoked = TRUE]

resetSequence(s) ==
    LET s1 == [s EXCEPT !.intervals = clearInterval(@, s.cpsUpdateInterval)]
        s2 == stopTimer(s1)
    IN  [s2 EXCEPT !.navigation = "reload", !.resetInvoked = TRUE]

\* variant of InWindow with exclusive ends
InWindowStrict(timeDiff, lo, hi) == timeDiff > lo /\ timeDiff < hi

InWindow(timeDiff, lo, hi) == timeDiff >= lo /\ timeDiff <= hi

\* variant of zone1Click that leaves zone1 attached
zone1ClickKeep(s, t) ==
    IF s.state = 0
    THEN LET s1 == [s EXCEPT !.state = 1, !.lastClickTimestamp = t]
             s2 == startTimer(s1, t, Timer1Ms)
         IN  [s2 EXCEPT !.mounted = @ \cup {"zone2"}]
    ELSE s

zone1Click(s, t) ==
    IF s.state = 0
    THEN LET s1 == [s EXCEPT !.state = 1, !.lastClickTimestamp = t]
             s2 == startTimer(s1, t, Timer1Ms)
         IN  [s2 EXCEPT !.mounted = (@ \ {"zone1"}) \cup {"zone2"}]
    ELSE s

\* variant of zone2Click that does not record the time of the accepted click
zone2ClickStale(s, t) ==
    IF s.state = 1
    THEN LET timeDiff == t - s.lastClickTimestamp
         IN  IF InWindow(timeDiff, Win12Min, Win12Max)
             THEN LET s1 == [s EXCEPT !.state = 2]
                      s2 == startTimer(s1, t, Timer2Ms)
                  IN  [s2 EXCEPT !.mounted = (@ \ {"zone2"}) \cup {"zone3"}]
             ELSE resetSequence(s)
    ELSE s

zone2Click(s, t) ==
    IF s.state = 1
    THEN LET timeDiff == t - s.lastClickTimestamp
         IN  IF InWindow(timeDiff, Win12Min, Win12Max)
             THEN LET s1 == [s EXCEPT !.state = 2, !.lastClickTimestamp = t]
                      s2 == startTimer(s1, t, Timer2Ms)
                  IN  [s2 EXCEPT !.mounted = (@ \ {"zone2"}) \cup {"zone3"}]
             ELSE resetSequence(s)
    ELSE s


\* variants of BurstPasses: strict comparison, exact comparison
BurstPassesStrict(totalClicks) == totalClicks > ClickGoal

BurstPassesExact(totalClicks) == totalClicks = ClickGoal

BurstPasses(totalClicks) == totalClicks >= ClickGoal

Label(l) == [label |-> l, n |-> 0]

\* variants of burstEval: guard on the wrong state; success branch that
\* leaves the rate display interval running; success branch that leaves the
\* readout running
burstEvalWrongStage(s) ==
    IF s.state = 4
    THEN resetSequence(s)
    ELSE s

burstEvalKeepCps(s) ==
    IF s.state = 5
    THEN LET totalClicks == Len(s.clickerTimestamps)
         IN  IF BurstPasses(totalClicks)
             THEN LET s2 == stopTimer([s EXCEPT !.state = 6])
                  IN  [s2 EXCEPT !.z3Style = "ok", !.z3Text = Label("OK"),
                                 !.fetchState = "pending", !.fetches = @ + 1]
             ELSE resetSequence(s)
    ELSE s

burstEvalKeepTimer(s) ==
    IF s.state = 5
    THEN LET totalClicks == Len(s.clickerTimestamps)
         IN  IF BurstPasses(totalClicks)
             THEN [s EXCEPT !.state = 6,
                            !.intervals = clearInterval(@, s.cpsUpdateInterval),
                            !.z3Style = "ok", !.z3Text = Label("OK"),
                            !.fetchState = "pending", !.fetches = @ + 1]
             ELSE resetSequence(s)
    ELSE s

\* the callback of the setTimeout of the state 4 branch
burstEval(s) ==
    IF s.state = 5
    THEN LET totalClicks == Len(s.clickerTimestamps)
         IN  IF BurstPasses(totalClicks)
             THEN LET s1 == [s EXCEPT !.state = 6,
                                      !.intervals = clearInterval(@, s.cpsUpdateInterval)]
                      s2 == stopTimer(s1)
                  IN  [s2 EXCEPT !.z3Style = "ok", !.z3Text = Label("OK"),
                                 !.fetchState = "pending", !.fetches = @ + 1]
             ELSE resetSequence(s)
    ELSE s

\* variant of currentCPS that counts an entry exactly one second old
currentCPSInclusive(ts, t) == Cardinality({i \in 1..Len(ts) : t - ts[i] <= CpsWindowMs})

currentCPS(ts, t) == Cardinality({i \in 1..Len(ts) : t - ts[i] < CpsWindowMs})

\* variant of cpsTick that drops the entries it no longer counts
cpsTickPrune(s, t, h) ==
    LET Recent(x) == t - x < CpsWindowMs
    IN  [s EXCEPT !.intervals[h].due = t + CpsMs,
                  !.clickerTimestamps = SelectSeq(@, Recent),
                  !.z3Text = [label |-> "cps", n |-> currentCPS(s.clickerTimestamps, t)]]

\* the callback of the setInterval stored in cpsUpdateInterval
cpsTick(s, t, h) ==
    [s EXCEPT !.intervals[h].due = t + CpsMs,
              !.z3Text = [label |-> "cps", n |-> currentCPS(s.clickerTimestamps, t)]]

zone3Click(s, t) ==
    IF s.state = 2
    THEN LET timeDiff == t - s.lastClickTimestamp
         IN  IF InWindow(timeDiff, Win23Min, Win23Max)
             THEN startTimer([s EXCEPT !.state = 3, !.lastClickTimestamp = t], t, Timer3Ms)
             ELSE resetSequence(s)
    ELSE IF s.state = 3
    THEN LET timeDiff == t - s.lastClickTimestamp
         IN  IF InWindow(timeDiff, Win34Min, Win34Max)
             THEN LET s1 == stopTimer([s EXCEPT !.state = 4])
                  IN  [s1 EXCEPT !.z3Style = "armed", !.z3Text = Label("START")]
             ELSE resetSequence(s)
    ELSE IF s.state = 4 \/ s.state = 5
    THEN LET sA == IF s.state = 4
                   THEN LET s1 == [s EXCEPT !.state = 5, !.clickerTimestamps = <<>>]
                            s2 == startTimer(s1, t, Timer5Ms)
                            h2 == s2.nextHandle
                            s3 == [s2 EXCEPT !.timeouts = Put(@, h2, t + BurstMs),
                                             !.nextHandle = h2 + 1]
                            h3 == s3.nextHandle
                        IN  [s3 EXCEPT !.cpsUpdateInterval = h3,
                                       !.intervals = Put(@, h3, [kind |-> "cps", due |-> t + CpsMs,
                                                                 startTime |-> t, duration |-> 0]),
                                       !.nextHandle = h3 + 1]
                   ELSE s
         IN  IF sA.state = 5
             THEN [sA EXCEPT !.clickerTimestamps = Append(@, t)]
             ELSE sA
    ELSE s

\* .then(d => { if (d.path) window.location.href = d.path; })
fetchThen(s, hasPath) ==
    IF hasPath
    THEN [s EXCEPT !.navigation = "href", !.fetchState = "path"]
    ELSE [s EXCEPT !.fetchState = "nopath"]

\* variant of fetchCatch that issues the request again
fetchCatchRetry(s, why) == [s EXCEPT !.fetchState = "pending", !.fetches = @ + 1]

\* .catch(err => { ...; resetSequence("...") }): fetch rejected or r.json() rejected
fetchCatch(s, why) == resetSequence([s EXCEPT !.fetchState = why])

(***************************************************************************)
(* The live-content refresher (second DOMContentLoaded listener), as a     *)
(* record: eventSource is the readyState of the EventSource ("none" when   *)
(* the listener returned before creating it), updating the updateContent() *)
(* runs awaiting their two responses, fading the pending 300 ms swaps.     *)
(***************************************************************************)
MaxUpdates == 3

liveLoaded(hasContainers) ==
    [eventSource |-> IF hasContainers THEN "connecting" ELSE "none",
     updates |-> 0, updating |-> 0, fading |-> 0, opacity |-> 1, content |-> 0]

\* eventSource.onmessage
onmessage(l, data) ==
    IF data = "update"
    THEN [l EXCEPT !.updates = @ + 1, !.updating = @ + 1]
    ELSE l

\* updateContent after Promise.all settled: both responses ok, or the catch
updateContentSettled(l, ok) ==
    IF ok
    THEN [l EXCEPT !.updating = @ - 1, !.opacity = 0, !.fading = @ + 1]
    ELSE [l EXCEPT !.updating = @ - 1]

\* the callback of the setTimeout of updateContent
swapContent(l) ==
    [l EXCEPT !.fading = @ - 1, !.content = @ + 1, !.opacity = 1]

\* eventSource.onerror
onerror(l) ==
    IF l.eventSource = "closed"
    THEN l
    ELSE [l EXCEPT !.eventSource = "closed"]

(***************************************************************************)
(* The state machine.                                                      *)
(***************************************************************************)
Init ==
    /\ state = 0
    /\ lastClickTimestamp = 0
    /\ clickerTimestamps = <<>>
    /\ cpsUpdateInterval = NullHandle
    /\ timerInterval = NullHandle
    /\ timerElement = <<>>
    /\ readouts = 0
    /\ intervals = EmptyTable
    /\ timeouts = EmptyTable
    /\ nextHandle = 1
    /\ mounted = {"zone1"}
    /\ z3Text = Label("")
    /\ z3Style = "hidden"
    /\ navigation = "none"
    /\ fetchState = "none"
    /\ fetches = 0
    /\ alive = TRUE
    /\ now = 0
    /\ accepted = <<>>
    /\ resetStreak = 0
    /\ live = liveLoaded(TRUE)

Set(r) ==
    /\ state' = r.state
    /\ lastClickTimestamp' = r.lastClickTimestamp
    /\ clickerTimestamps' = r.clickerTimestamps
    /\ cpsUpdateInterval' = r.cpsUpdateInterval
    /\ timerInterval' = r.timerInterval
    /\ timerElement' = r.timerElement
    /\ readouts' = r.readouts
    /\ intervals' = r.intervals
    /\ timeouts' = r.timeouts
    /\ nextHandle' = r.nextHandle
    /\ mounted' = r.mounted
    /\ z3Text' = r.z3Text
    /\ z3Style' = r.z3Style
    /\ navigation' = r.navigation
    /\ fetchState' = r.fetchState
    /\ fetches' = r.fetches
    /\ resetStreak' = IF r.resetInvoked THEN Min2(resetStreak + 1, MaxStreak) ELSE 0

\* an accepted click of states 0..3 is logged with the time it was measured by
Logged(r) ==
    IF state <= 3 /\ r.state = state + 1
    THEN Append(accepted, IF state = 0 THEN now ELSE now - lastClickTimestamp)
    ELSE accepted

\* clicks arriving once the burst timeout is overdue
LateClicks ==
    Cardinality({i \in 1..Len(clickerTimestamps) :
                    clickerTimestamps[i] >= clickerTimestamps[1] + BurstMs})

Advance(d) ==
    /\ alive
    /\ now + d <= MaxNow
    /\ state # 0
    /\ now' = now + d
    /\ UNCHANGED <<progvars, alive, accepted, resetStreak, live>>

ClickZone1 ==
    /\ alive
    /\ "zone1" \in mounted
    /\ LET r == zone1Click(Cur, now) IN Set(r) /\ accepted' = Logged(r)
    /\ UNCHANGED <<alive, now, live>>

ClickZone2 ==
    /\ alive
    /\ "zone2" \in mounted
    /\ LET r == zone2Click(Cur, now) IN Set(r) /\ accepted' = Logged(r)
    /\ UNCHANGED <<alive, now, live>>

ClickZone3 ==
    /\ alive
    /\ "zone3" \in mounted
    /\ state = 4 => now + BurstMs <= MaxNow
    /\ state = 5 => /\ Len(clickerTimestamps) < MaxTally
                    /\ now >= clickerTimestamps[1] + BurstMs => LateClicks < MaxLate
    /\ LET r == zone3Click(Cur, now) IN Set(r) /\ accepted' = Logged(r)
    /\ UNCHANGED <<alive, now, live>>

TimerTick(h) ==
    /\ alive
    /\ h \in DOMAIN intervals
    /\ intervals[h].kind = "overlay"
    /\ now >= intervals[h].due
    /\ Set(timerTick(Cur, now, h))
    /\ UNCHANGED <<alive, now, accepted, live>>

CpsTick(h) ==
    /\ alive
    /\ h \in DOMAIN intervals
    /\ intervals[h].kind = "cps"
    /\ now >= intervals[h].due
    /\ Set(cpsTick(Cur, now, h))
    /\ UNCHANGED <<alive, now, accepted, live>>

\* variant of BurstEval whose timer stays scheduled after it has fired
BurstEvalRepeat(h) ==
    /\ alive
    /\ h \in DOMAIN timeouts
    /\ now >= timeouts[h]
    /\ Set(burstEval(Cur))
    /\ UNCHANGED <<alive, now, accepted, live>>

BurstEval(h) ==
    /\ alive
    /\ h \in DOMAIN timeouts
    /\ now >= timeouts[h]
    /\ Set(burstEval([Cur EXCEPT !.timeouts = clearInterval(@, h)]))
    /\ UNCHANGED <<alive, now, accepted, live>>

FetchPath ==
    /\ alive
    /\ fetchState = "pending"
    /\ Set(fetchThen(Cur, TRUE))
    /\ UNCHANGED <<alive, now, accepted, live>>

FetchNoPath ==
    /\ alive
    /\ fetchState = "pending"
    /\ Set(fetchThen(Cur, FALSE))
    /\ UNCHANGED <<alive, now, accepted, live>>

FetchNetworkError ==
    /\ alive
    /\ fetchState = "pending"
    /\ Set(fetchCatch(Cur, "error"))
    /\ UNCHANGED <<alive, now, accepted, live>>

FetchUnparsable ==
    /\ alive
    /\ fetchState = "pending"
    /\ Set(fetchCatch(Cur, "unparsable"))
    /\ UNCHANGED <<alive, now, accepted, live>>

\* the navigation started by reload() or by the href assignment commits
Unload ==
    /\ alive
    /\ navigation # "none"
    /\ alive' = FALSE
    /\ UNCHANGED <<progvars, now, accepted, resetStreak, live>>

Next ==
    \/ \E d \in Delays(state) : Advance(d)
    \/ ClickZone1
    \/ ClickZone2
    \/ ClickZone3
    \/ \E h \in DOMAIN intervals : TimerTick(h)
    \/ \E h \in DOMAIN intervals : CpsTick(h)
    \/ \E h \in DOMAIN timeouts : BurstEval(h)
    \/ FetchPath
    \/ FetchNoPath
    \/ FetchNetworkError
    \/ FetchUnparsable
    \/ Unload

Spec == Init /\ [][Next]_vars

(***************************************************************************)
(* Spec with the scheduling of the browser: the clock keeps moving and a   *)
(* timeout that is due is delivered.                                       *)
(***************************************************************************)
FairSpec ==
    /\ Spec
    /\ WF_vars(\E d \in Delays(state) : Advance(d))
    /\ WF_vars(\E h \in DOMAIN timeouts : BurstEval(h))

(***************************************************************************)
(* The live-content refresher running on the page.                         *)
(***************************************************************************)
fsmvars == <<progvars, alive, now, accepted, resetStreak>>

\* the server accepted the stream: readyState becomes OPEN
EsOpen ==
    /\ alive
    /\ live.eventSource = "connecting"
    /\ live' = [live EXCEPT !.eventSource = "open"]
    /\ UNCHANGED fsmvars

\* a message event with data "update" or with other data
EsMessage(data) ==
    /\ alive
    /\ live.eventSource = "open"
    /\ live.updates < MaxUpdates
    /\ live' = onmessage(live, data)
    /\ UNCHANGED fsmvars

\* an error event: the browser has set readyState to CLOSED (fatal) or to
\* CONNECTING (it is about to reconnect) before it runs onerror
EsError(fatal) ==
    /\ alive
    /\ live.eventSource \in {"connecting", "open"}
    /\ live' = onerror([live EXCEPT !.eventSource = IF fatal THEN "closed" ELSE "connecting"])
    /\ UNCHANGED fsmvars

\* both fragment requests of one updateContent() run have settled
UpdateSettled(ok) ==
    /\ alive
    /\ live.updating > 0
    /\ live' = updateContentSettled(live, ok)
    /\ UNCHANGED fsmvars

SwapContent ==
    /\ alive
    /\ live.fading > 0
    /\ live' = swapContent(live)
    /\ UNCHANGED fsmvars

LiveEvent ==
    \/ EsOpen
    \/ \E data \in {"update", "ping"} : EsMessage(data)
    \/ \E fatal \in BOOLEAN : EsError(fatal)
    \/ \E ok \in BOOLEAN : UpdateSettled(ok)
    \/ SwapContent

InitLive ==
    \E hasContainers \in BOOLEAN :
        /\ state = 0
        /\ lastClickTimestamp = 0
        /\ clickerTimestamps = <<>>
        /\ cpsUpdateInterval = NullHandle
        /\ timerInterval = NullHandle
        /\ timerElement = <<>>
        /\ readouts = 0
        /\ intervals = EmptyTable
        /\ timeouts = EmptyTable
        /\ nextHandle = 1
        /\ mounted = {"zone1"}
        /\ z3Text = Label("")
        /\ z3Style = "hidden"
        /\ navigation = "none"
        /\ fetchState = "none"
        /\ fetches = 0
        /\ alive = TRUE
        /\ now = 0
        /\ accepted = <<>>
        /\ resetStreak = 0
        /\ live = liveLoaded(hasContainers)

NextLive ==
    \/ EsOpen
    \/ \E data \in {"update", "ping"} : EsMessage(data)
    \/ \E fatal \in BOOLEAN : EsError(fatal)
    \/ \E ok \in BOOLEAN : UpdateSettled(ok)
    \/ SwapContent
    \/ ClickZone1

SpecLive == InitLive /\ [][NextLive]_vars

(***************************************************************************)
(* The burst on a fine clock: the page right after the arming click of the *)
(* run zone1 at 0, zone2 at 2000, zone3 at 5000 and 7000, armed at 7000,   *)
(* then clicks and rate display ticks up to one second and a bit later.    *)
(***************************************************************************)
MaxRateNow == 8100
MaxRateClicks == 4

RateDelays == {100, 999, 1000}

Loaded ==
    [state |-> 0, lastClickTimestamp |-> 0, clickerTimestamps |-> <<>>,
     cpsUpdateInterval |-> NullHandle, timerInterval |-> NullHandle,
     timerElement |-> <<>>, readouts |-> 0, intervals |-> EmptyTable,
     timeouts |-> EmptyTable, nextHandle |-> 1, mounted |-> {"zone1"},
     z3Text |-> Label(""), z3Style |-> "hidden", navigation |-> "none",
     fetchState |-> "none", fetches |-> 0, resetInvoked |-> FALSE]

Armed ==
    zone3Click(zone3Click(zone3Click(zone2Click(zone1Click(Loaded, 0), 2000), 5000), 7000), 7000)

InitRate ==
    /\ state = Armed.state
    /\ lastClickTimestamp = Armed.lastClickTimestamp
    /\ clickerTimestamps = Armed.clickerTimestamps
    /\ cpsUpdateInterval = Armed.cpsUpdateInterval
    /\ timerInterval = Armed.timerInterval
    /\ timerElement = Armed.timerElement
    /\ readouts = Armed.readouts
    /\ intervals = Armed.intervals
    /\ timeouts = Armed.timeouts
    /\ nextHandle = Armed.nextHandle
    /\ mounted = Armed.mounted
    /\ z3Text = Armed.z3Text
    /\ z3Style = Armed.z3Style
    /\ navigation = Armed.navigation
    /\ fetchState = Armed.fetchState
    /\ fetches = Armed.fetches
    /\ alive = TRUE
    /\ now = 7000
    /\ accepted = <<0, 2000, 3000, 2000>>
    /\ resetStreak = 0
    /\ live = liveLoaded(TRUE)

AdvanceRate(d) ==
    /\ alive
    /\ now + d <= MaxRateNow
    /\ now' = now + d
    /\ UNCHANGED <<progvars, alive, accepted, resetStreak, live>>

BurstClick ==
    /\ Len(clickerTimestamps) < MaxRateClicks
    /\ ClickZone3

NextRate ==
    \/ \E d \in RateDelays : AdvanceRate(d)
    \/ BurstClick
    \/ \E h \in DOMAIN intervals : CpsTick(h)

SpecRate == InitRate /\ [][NextRate]_vars

(***************************************************************************)
(* Properties.                                                             *)
(***************************************************************************)

\* C1: a click on the active zone in state 1, 2 or 3 whose elapsed time since
\* the last accepted click is the minimum or the maximum of that state's
\* window ([2000,3500], [3000,4500], [2000,3000]) advances the state by one;
\* one millisecond below the minimum or above the maximum it leaves the
\* state as it is and calls resetSequence.
C1_WindowBoundaries ==
    [][ LET e == now - lastClickTimestamp
            Advances == state' = state + 1
            Rejected == state' = state /\ navigation' = "reload" /\ resetStreak' >= 1
        IN  /\ (ClickZone2 /\ state = 1) =>
                 /\ e \in {2000, 3500} => Advances
                 /\ e \in {1999, 3501} => Rejected
            /\ (ClickZone3 /\ state = 2) =>
                 /\ e \in {3000, 4500} => Advances
                 /\ e \in {2999, 4501} => Rejected
            /\ (ClickZone3 /\ state = 3) =>
                 /\ e \in {2000, 3000} => Advances
                 /\ e \in {1999, 3001} => Rejected ]_vars

\* a click was rejected and later clicks were accepted at an end of each window
C1_Witness ==
    /\ state = 4
    /\ navigation = "reload"
    /\ Len(accepted) = 4
    /\ accepted[2] \in {2000, 3500}
    /\ accepted[3] \in {3000, 4500}
    /\ accepted[4] \in {2000, 3000}

\* C2: when the burst evaluation fires in state 5, a buffer of 180 or more
\* entries sets state 6 and issues the verification request, a buffer of 179
\* or fewer calls resetSequence and leaves the state at 5; state 6 is never
\* held with fewer than 180 entries.
C2_BurstThreshold ==
    /\ [][ \A h \in DOMAIN timeouts :
              (BurstEval(h) /\ state = 5) =>
                 /\ Len(clickerTimestamps) >= 180 =>
                       state' = 6 /\ fetches' = fetches + 1 /\ fetchState' = "pending"
                 /\ Len(clickerTimestamps) <= 179 =>
                       state' = 5 /\ navigation' = "reload" /\ resetStreak' >= 1
                                  /\ fetches' = fetches ]_vars
    /\ [](state = 6 => Len(clickerTimestamps) >= 180)

\* the evaluation succeeded on a buffer of exactly 180 entries
C2_Witness == state = 6 /\ Len(clickerTimestamps) = 180 /\ fetches = 1

\* C3: the click that moves the state from 4 to 5 leaves the click buffer
\* empty.
C3_ArmingClickNotCounted ==
    [][ (ClickZone3 /\ state = 4 /\ state' = 5) => clickerTimestamps' = <<>> ]_vars

\* C4: once the verification request has settled without a navigation target
\* (network error, unparsable body, body without a path), resetSequence has
\* been called: state 6 is not kept without a navigation under way.
C4_UnusableResponseResets ==
    fetchState \in {"error", "unparsable", "nopath"} => navigation = "reload"

\* C5: once a click in state 1, 2 or 3 has been rejected (resetSequence has
\* started the reload), no later click advances the state.
C5_ViolationIsFinal ==
    [][ (navigation = "reload" /\ state \in 1..3) => state' = state ]_vars

\* C6: every step leaves the state unchanged or raises it by exactly one, and
\* the state stays within 0..6.
C6_StageMonotone ==
    /\ [][ state' = state \/ state' = state + 1 ]_vars
    /\ [](state \in 0..6)

\* resetSequence ran in state 6 (after a failed verification) and the state is still 6
C6_Witness == state = 6 /\ navigation = "reload" /\ resetStreak >= 1

\* C7: right after a call of resetSequence no interval (readout or rate
\* display) and no burst timeout is scheduled and no readout is mounted.
C7_ResetCancelsAll ==
    resetStreak >= 1 =>
        /\ DOMAIN intervals = {}
        /\ DOMAIN timeouts = {}
        /\ timerElement = <<>>
        /\ readouts = 0

\* resetSequence ran at the burst evaluation, after the rate display interval was started
C7_Witness ==
    /\ resetStreak >= 1
    /\ state = 5
    /\ cpsUpdateInterval # NullHandle
    /\ Len(clickerTimestamps) < 180

\* C8: at most one verification request is issued, and one is issued only
\* by the step from state 5 to state 6; none follows a settled request.
C8_SingleRequest ==
    /\ [](fetches <= 1)
    /\ [][ fetches' # fetches =>
              /\ fetches' = fetches + 1
              /\ state = 5 /\ state' = 6
              /\ fetchState = "none" ]_vars

\* the single request failed and nothing was issued after it
C8_Witness ==
    /\ fetches = 1
    /\ fetchState \in {"error", "unparsable"}
    /\ navigation = "reload"

\* C9: zone A at 0, zone B 2500 ms later, zone C 3500 ms later, zone C 2500 ms
\* later, the armed button, 185 more clicks inside the 3000 ms of the burst,
\* no other click: the evaluation sets state 6 and issues the verification
\* request and resetSequence has not been called.
C9_Scenario ==
    [][ \A h \in DOMAIN timeouts :
           ( /\ BurstEval(h)
             /\ accepted = <<0, 2500, 3500, 2500>>
             /\ navigation = "none"
             /\ state = 5
             /\ Len(clickerTimestamps) = 186
             /\ \A i \in 1..Len(clickerTimestamps) :
                    clickerTimestamps[i] < clickerTimestamps[1] + 3000 )
           => /\ state' = 6
              /\ fetches' = 1 /\ fetchState' = "pending"
              /\ navigation' = "none" /\ resetStreak' = 0 ]_vars

\* the scenario has been played to its end
C9_Witness ==
    /\ state = 6
    /\ accepted = <<0, 2500, 3500, 2500>>
    /\ Len(clickerTimestamps) = 186
    /\ clickerTimestamps[186] < clickerTimestamps[1] + 3000
    /\ fetches = 1
    /\ navigation = "none"

\* C10: resetSequence applied to the outcome of resetSequence changes
\* nothing, and a call of resetSequence that directly follows another one
\* leaves the whole page state as it was.
C10_ResetIdempotent ==
    /\ [](LET r == resetSequence(Cur) IN resetSequence(r) = r)
    /\ [][ (resetStreak >= 1 /\ resetStreak' > resetStreak) => progvars' = progvars ]_vars

\* resetSequence has been called twice in a row
C10_Witness == resetStreak >= 2

\* C11: the burst timeout is scheduled by the click that moves the state
\* from 4 to 5 and by no other step, at most one is ever pending, a firing
\* takes it off the table for good, it is delivered once it is due (unless
\* the page is unloaded first), and its callback changes nothing when the
\* state is not 5.
C11_EvalScheduledOnce ==
    /\ [][ /\ (DOMAIN timeouts' \ DOMAIN timeouts # {}) =>
                 /\ ClickZone3 /\ state = 4 /\ state' = 5
                 /\ DOMAIN timeouts = {}
                 /\ Cardinality(DOMAIN timeouts') = 1
           /\ \A h \in DOMAIN timeouts :
                 BurstEval(h) =>
                    /\ DOMAIN timeouts' = {}
                    /\ (state' # state \/ resetStreak' >= 1) => state = 5 ]_vars
    /\ [](Cardinality(DOMAIN timeouts) <= 1)
    /\ [](state = 6 => DOMAIN timeouts = {})
    /\ [](\A st \in (0..6) \ {5} :
             burstEval([Cur EXCEPT !.state = st]) = [Cur EXCEPT !.state = st])
    /\ (DOMAIN timeouts # {}) ~> (DOMAIN timeouts = {} \/ ~alive)

\* the timeout has fired after further clicks in state 5 and nothing is pending
C11_Witness ==
    /\ state = 5
    /\ Len(clickerTimestamps) >= 3
    /\ DOMAIN timeouts = {}
    /\ resetStreak >= 1

\* C12: with the clock moving and due timeouts delivered, a page in state 5
\* gets to state 6 or to a resetSequence call by the evaluation (or is
\* unloaded by a reload started earlier); a click in state 5 leaves the
\* state at 5 and the pending timeout as it is, and the evaluation in state
\* 5 ends in state 6 or in a call of resetSequence.
C12_BurstEnds ==
    /\ (state = 5) ~> \/ state = 6
                      \/ (DOMAIN timeouts = {} /\ navigation = "reload")
                      \/ ~alive
    /\ [][ /\ (ClickZone3 /\ state = 5) => (state' = 5 /\ timeouts' = timeouts)
           /\ \A h \in DOMAIN timeouts :
                 (BurstEval(h) /\ state = 5) =>
                    \/ state' = 6
                    \/ (state' = 5 /\ navigation' = "reload" /\ resetStreak' >= 1) ]_vars

\* the burst was ended by the evaluation, with clicks handled before it
C12_Witness ==
    /\ state = 6
    /\ Len(clickerTimestamps) >= 180
    /\ DOMAIN timeouts = {}
    /\ navigation = "none"

\* C13: the click buffer changes only in a zone3 click handled in state 4 or
\* 5; a zone3 click handled in state 5 appends exactly its own timestamp;
\* a rate display tick leaves state, lastClickTimestamp and the buffer alone.
C13_BufferFrame ==
    [][ /\ (clickerTimestamps' # clickerTimestamps) => (ClickZone3 /\ state \in {4, 5})
        /\ (ClickZone3 /\ state = 5) => clickerTimestamps' = Append(clickerTimestamps, now)
        /\ \A h \in DOMAIN intervals :
              CpsTick(h) => UNCHANGED <<state, lastClickTimestamp, clickerTimestamps>> ]_vars

\* a rate display tick ran on a buffer whose entries are all older than a second
C13_Witness ==
    /\ state = 5
    /\ Len(clickerTimestamps) >= 2
    /\ z3Text = [label |-> "cps", n |-> 0]
    /\ now >= clickerTimestamps[Len(clickerTimestamps)] + 1000

\* C14: exactly one zone is attached: zone1 in state 0, zone2 in state 1,
\* zone3 from state 2 on.
C14_OneZone ==
    mounted = IF state = 0 THEN {"zone1"}
              ELSE IF state = 1 THEN {"zone2"}
              ELSE {"zone3"}

\* both swaps have happened
C14_Witness == state = 2 /\ mounted = {"zone3"}

\* C15: at most one rate display interval is scheduled, only in state 5, and
\* in state 6 the label of zone3 is the success label.
C15_OneRateInterval ==
    LET cps == {h \in DOMAIN intervals : intervals[h].kind = "cps"}
    IN  /\ Cardinality(cps) <= 1
        /\ cps # {} => (state = 5 /\ cps = {cpsUpdateInterval})
        /\ state = 6 => (cps = {} /\ z3Text = Label("OK"))

\* the evaluation succeeded after the rate display interval had been started
C15_Witness ==
    /\ state = 6
    /\ z3Text = Label("OK")
    /\ cpsUpdateInterval # NullHandle
    /\ now >= clickerTimestamps[1] + 3000

\* C16: at most one readout is attached and at most one readout interval is
\* scheduled, and there is a readout exactly when there is a readout interval.
C16_OneOverlay ==
    LET ov == {h \in DOMAIN intervals : intervals[h].kind = "overlay"}
    IN  /\ readouts <= 1
        /\ Cardinality(ov) <= 1
        /\ (readouts = 1) <=> (ov # {})
        /\ (readouts = 1) <=> (timerElement # <<>>)
        /\ ov # {} => ov = {timerInterval}

\* the readout hid itself at the end of its duration (no reset, state not advanced)
C16_Witness ==
    /\ state = 1
    /\ navigation = "none"
    /\ readouts = 0
    /\ timerInterval # NullHandle
    /\ DOMAIN intervals = {}

RECURSIVE SumSeq(_)
SumSeq(q) == IF q = <<>> THEN 0 ELSE q[1] + SumSeq(Tail(q))

\* C17 as stated: in states 1 to 4 lastClickTimestamp is the time of the click
\* that entered the state.
C17_StampOnEveryTransition ==
    (state \in 1..4 /\ Len(accepted) = state) => lastClickTimestamp = SumSeq(accepted)

\* C17 amended: in states 1 to 3 lastClickTimestamp is the time of the click
\* that entered the state; the click from state 3 to state 4 leaves it as it is.
C17_StampOnTimedTransitions ==
    /\ []((state \in 1..3 /\ Len(accepted) = state) => lastClickTimestamp = SumSeq(accepted))
    /\ [][ (state \in 0..2 /\ state' = state + 1) => lastClickTimestamp' = now ]_vars
    /\ [][ (state = 3 /\ state' = 4) => lastClickTimestamp' = lastClickTimestamp ]_vars

\* state 4 holds the timestamp of the click that entered state 3
C17_Witness ==
    /\ state = 4
    /\ Len(accepted) = 4
    /\ lastClickTimestamp = accepted[1] + accepted[2] + accepted[3]
    /\ lastClickTimestamp < SumSeq(accepted)

\* C18: a rate display tick writes the number of buffer entries less than
\* 1000 ms old: an entry 999 ms old counts, an entry 1000 ms old does not.
C18_RateCount ==
    [][ \A h \in DOMAIN intervals :
           CpsTick(h) =>
              LET Young(ts) == ts > now - 1000
              IN  z3Text' = [label |-> "cps", n |-> Len(SelectSeq(clickerTimestamps, Young))] ]_vars

\* a tick counted one of two entries while the other was exactly 1000 ms old
C18_Witness ==
    /\ Len(clickerTimestamps) = 2
    /\ now - clickerTimestamps[1] = 1000
    /\ now - clickerTimestamps[2] < 1000
    /\ z3Text = [label |-> "cps", n |-> 1]
    /\ intervals[cpsUpdateInterval].due = now + 100

\* C19: a readout is attached only in states 1, 2, 3 and 5.
C19_OverlayStages ==
    (readouts > 0 \/ timerElement # <<>>) => state \in {1, 2, 3, 5}

\* state 4 was entered 2000 ms into a 3000 ms readout, and none is attached
C19_Witness ==
    /\ state = 4
    /\ Len(accepted) = 4
    /\ accepted[4] = 2000
    /\ readouts = 0

\* C20: an error event on a subscription that the browser is reconnecting
\* leaves the subscription in place (not closed), and no event of the
\* live-content refresher changes state, lastClickTimestamp or the buffer.
C20_ErrorLeavesSubscription ==
    [][ /\ EsError(FALSE) => live'.eventSource # "closed"
        /\ LiveEvent => UNCHANGED <<state, lastClickTimestamp, clickerTimestamps>> ]_vars

====
